---------------------------- MODULE Spec2Model ----------------------------
(***************************************************************************)
(* Model of the guessing game of src/src/main.rs: main (the session loop), *)
(* guess (one round) and input_parser.                                     *)
(*                                                                         *)
(* A line of text is a sequence of one-character strings.  u32 values are  *)
(* modelled at a reduced width: U32_MAX stands for u32::MAX = 4294967295,  *)
(* and every arithmetic step keeps that width.                             *)
(***************************************************************************)
EXTENDS Integers, Sequences, FiniteSets, TLC

\* u32::MAX at the modelled width: u32 arithmetic is arithmetic modulo
\* U32_MAX + 1.
U32_MAX == 11

U32 == 0..U32_MAX

-----------------------------------------------------------------------------
(* Text *)

DigitChars == <<"0", "1", "2", "3", "4", "5", "6", "7", "8", "9">>

IsDigit(c) == \E i \in 1..10 : DigitChars[i] = c

DigitVal(c) == (CHOOSE i \in 1..10 : DigitChars[i] = c) - 1

\* Characters str::trim removes (the White_Space characters a terminal line
\* can carry).
IsWhitespace(c) == c \in {" ", "\t", "\n", "\r"}

\* Display of an unsigned integer ("{}" in println!): decimal, no padding.
RECURSIVE Format(_)
Format(n) ==
    IF n < 10 THEN <<DigitChars[n + 1]>>
    ELSE Format(n \div 10) \o <<DigitChars[(n % 10) + 1]>>

RECURSIVE TrimStart(_)
TrimStart(s) ==
    IF s # <<>> /\ IsWhitespace(Head(s)) THEN TrimStart(Tail(s)) ELSE s

RECURSIVE TrimEnd(_)
TrimEnd(s) ==
    IF s # <<>> /\ IsWhitespace(s[Len(s)])
    THEN TrimEnd(SubSeq(s, 1, Len(s) - 1))
    ELSE s

\* str::trim
Trim(s) == TrimEnd(TrimStart(s))

\* ParseDigits as it would be with the overflow check off by one.
RECURSIVE ParseDigits_StrictBound(_, _)
ParseDigits_StrictBound(acc, s) ==
    IF s = <<>> THEN [ok |-> TRUE, num |-> acc]
    ELSE IF ~IsDigit(Head(s)) THEN [ok |-> FALSE, num |-> 0]
    ELSE IF acc * 10 + DigitVal(Head(s)) >= U32_MAX THEN [ok |-> FALSE, num |-> 0]
    ELSE ParseDigits_StrictBound(acc * 10 + DigitVal(Head(s)), Tail(s))

\* Accumulation of decimal digits with the overflow check of u32's FromStr:
\* [ok |-> FALSE] on a non-digit or when the value leaves the u32 range.
RECURSIVE ParseDigits(_, _)
ParseDigits(acc, s) ==
    IF s = <<>> THEN [ok |-> TRUE, num |-> acc]
    ELSE IF ~IsDigit(Head(s)) THEN [ok |-> FALSE, num |-> 0]
    ELSE IF acc * 10 + DigitVal(Head(s)) > U32_MAX THEN [ok |-> FALSE, num |-> 0]
    ELSE ParseDigits(acc * 10 + DigitVal(Head(s)), Tail(s))

\* ParseU32 as it would be if the empty text were read as zero.
ParseU32_EmptyIsZero(s) ==
    IF s = <<>> THEN [ok |-> TRUE, num |-> 0]
    ELSE IF Head(s) \in {"+", "-"} /\ Len(s) = 1 THEN [ok |-> FALSE, num |-> 0]
    ELSE IF Head(s) = "+" THEN ParseDigits(0, Tail(s))
    ELSE ParseDigits(0, s)

\* str::parse::<u32>: an optional "+" followed by at least one digit; no
\* whitespace, no "-", no value above u32::MAX.
ParseU32(s) ==
    IF s = <<>> THEN [ok |-> FALSE, num |-> 0]
    ELSE IF Head(s) \in {"+", "-"} /\ Len(s) = 1 THEN [ok |-> FALSE, num |-> 0]
    ELSE IF Head(s) = "+" THEN ParseDigits(0, Tail(s))
    ELSE ParseDigits(0, s)

-----------------------------------------------------------------------------
(* Output *)

\* A printed line: fixed wording plus the text substituted for "{}".
Msg(m) == [msg |-> m, arg |-> <<>>]

MsgArg(m, a) == [msg |-> m, arg |-> a]

Blank == Msg("")
Welcome == Msg("Welcome to the guessing game.")
QuitHint == Msg("Type \"quit\" at any time to quit.")
MaxPrompt == Msg("What is the max value to guess?")
Goodbye == Msg("Goodbye!")
MustBePositive == Msg("Value must be greater than zero.")
AgainPrompt == Msg("Enter \"y\" to play again.")
LeavingWinner == Msg("At least you're leaving a winner.")
GuessPrompt == Msg("Input your guess!")
TooSmall == Msg("Too small.")
TooBig == Msg("Too big.")
YouWin == Msg("You win!")
GuessIntro(max) == MsgArg("Guess a number from 1 to {}.", Format(max))
InvalidNumber(text) == MsgArg("Invalid number: {}", text)

\* Number of times message m occurs in the output o.
Count(o, m) == Cardinality({i \in 1..Len(o) : o[i] = m})

\* Number of "Invalid number: ..." messages in the output o.
CountInvalid(o) == Cardinality({i \in 1..Len(o) : o[i].msg = "Invalid number: {}"})

-----------------------------------------------------------------------------
(* input_parser *)

quit == <<"q", "u", "i", "t">>

\* input_parser as it would be with the farewell printed by the parser too.
input_parser_farewell(input) ==
    LET parsed == ParseU32(Trim(input)) IN
    IF parsed.ok
    THEN [ok |-> TRUE, num |-> parsed.num, typed_quit |-> FALSE, out |-> <<>>]
    ELSE IF Trim(input) = quit
    THEN [ok |-> FALSE, num |-> 0, typed_quit |-> TRUE, out |-> <<Goodbye>>]
    ELSE [ok |-> FALSE, num |-> 0, typed_quit |-> FALSE,
          out |-> <<InvalidNumber(Trim(input))>>]

\* input_parser as it would be with "quit" compared with the untrimmed line.
input_parser_quit_untrimmed(input) ==
    LET parsed == ParseU32(Trim(input)) IN
    IF parsed.ok
    THEN [ok |-> TRUE, num |-> parsed.num, typed_quit |-> FALSE, out |-> <<>>]
    ELSE IF input = quit
    THEN [ok |-> FALSE, num |-> 0, typed_quit |-> TRUE, out |-> <<>>]
    ELSE [ok |-> FALSE, num |-> 0, typed_quit |-> FALSE,
          out |-> <<InvalidNumber(Trim(input))>>]

\* input_parser as it would be with the untrimmed line in the diagnostic.
input_parser_raw_message(input) ==
    LET parsed == ParseU32(Trim(input)) IN
    IF parsed.ok
    THEN [ok |-> TRUE, num |-> parsed.num, typed_quit |-> FALSE, out |-> <<>>]
    ELSE IF Trim(input) = quit
    THEN [ok |-> FALSE, num |-> 0, typed_quit |-> TRUE, out |-> <<>>]
    ELSE [ok |-> FALSE, num |-> 0, typed_quit |-> FALSE,
          out |-> <<InvalidNumber(input)>>]

\* input_parser as it would be if unparseable text were reported and then
\* returned as the number zero.
input_parser_invalid_as_zero(input) ==
    LET parsed == ParseU32(Trim(input)) IN
    IF parsed.ok
    THEN [ok |-> TRUE, num |-> parsed.num, typed_quit |-> FALSE, out |-> <<>>]
    ELSE IF Trim(input) = quit
    THEN [ok |-> FALSE, num |-> 0, typed_quit |-> TRUE, out |-> <<>>]
    ELSE [ok |-> TRUE, num |-> 0, typed_quit |-> FALSE,
          out |-> <<InvalidNumber(Trim(input))>>]

\* Result<u32, bool> together with what the call printed.
\* ok: Ok(num); ~ok: Err(typed_quit).
input_parser(input) ==
    LET parsed == ParseU32(Trim(input)) IN
    IF parsed.ok
    THEN [ok |-> TRUE, num |-> parsed.num, typed_quit |-> FALSE, out |-> <<>>]
    ELSE IF Trim(input) = quit
    THEN [ok |-> FALSE, num |-> 0, typed_quit |-> TRUE, out |-> <<>>]
    ELSE [ok |-> FALSE, num |-> 0, typed_quit |-> FALSE,
          out |-> <<InvalidNumber(Trim(input))>>]


-----------------------------------------------------------------------------
(* Standard input *)

Line(text) == text \o <<"\n">>

\* Lines holding a decimal number: every u32 value and the first value that
\* no longer fits.
NumberLines == {Line(Format(n)) : n \in 0..(U32_MAX + 1)}

\* Other lines a user can type; <<>> is what read_line delivers at end of
\* input.
TextLines ==
    { Line(quit),
      <<" ">> \o quit \o <<" ", "\n">>,
      Line(<<"Q", "U", "I", "T">>),
      Line(<<"Q", "u", "i", "t">>),
      Line(quit \o <<" ", "n", "o", "w">>),
      Line(<<"a", "b", "c">>),
      <<>>,
      Line(<<>>),
      Line(<<"y">>),
      <<" ", "y", " ", "\n">>,
      Line(<<"Y">>),
      Line(<<"y", "e", "s">>),
      Line(<<"n">>),
      Line(<<"+", "5">>),
      Line(<<"-", "5">>),
      <<" ", "7", " ", "\n">>,
      Line(<<"0", "0", "7">>) }

Lines == NumberLines \cup TextLines

-----------------------------------------------------------------------------
(* State *)

VARIABLES
    pc,             \* position of the program
    build,          \* "debug" (overflow checks on) or "release" (wrapping)
    max_value,      \* main's validated max_value: u32, 0 while not bound
    secret_number,  \* guess's secret_number: u32, 0 while no round runs
    can_play_again, \* value returned by guess, read at pc = "ret"
    out,            \* lines printed by the last step
    input,          \* the line the last read_line delivered
    read_at,        \* the prompt of the last read_line
    panic,          \* panic message, NoPanic while the process has not panicked
    goodbyes,       \* number of "Goodbye!" lines printed so far, all steps
    result,         \* what the last call of input_parser returned and printed
    known_low,      \* player: greatest guess of the round answered "Too small."
    known_high,     \* player: least guess of the round answered "Too big."
    tries           \* player: guesses of the round that were compared

\* What a player remembers of a round's feedback; the program never reads it.
player_vars == <<known_low, known_high, tries>>

vars == <<pc, build, max_value, secret_number, can_play_again, out, input,
          read_at, panic, goodbyes, result, known_low, known_high, tries>>

\* The Err of read_line, in the place of the line.
ReadError == <<"io::Error">>

\* No value of input_parser is at hand: it has not been called yet, or the
\* last read was not followed by a call.
NoResult == [ok |-> FALSE, num |-> 0, typed_quit |-> FALSE, out |-> <<>>]

NoPanic == "none"
ReadPanic == "Failed to read line."
OverflowPanic == "attempt to add with overflow"
RangePanic == "gen_range called with known_low >= known_high"

PcValues == {"max", "call_guess", "guess", "ret", "again", "done", "panicked"}

TypeOK ==
    /\ pc \in PcValues
    /\ build \in {"debug", "release"}
    /\ max_value \in U32
    /\ secret_number \in U32
    /\ can_play_again \in BOOLEAN
    /\ out \in Seq([msg : STRING, arg : Seq(STRING)])
    /\ input \in Lines \cup {ReadError}
    /\ read_at \in {"none", "max", "guess", "again"}
    /\ panic \in {NoPanic, ReadPanic, OverflowPanic, RangePanic}
    /\ goodbyes \in Nat
    /\ result \in [ok : BOOLEAN, num : U32, typed_quit : BOOLEAN,
                    out : Seq([msg : STRING, arg : Seq(STRING)])]
    /\ known_low \in U32
    /\ known_high \in 0..(U32_MAX + 1)
    /\ tries \in Nat

Init ==
    /\ pc = "max"
    /\ build \in {"debug", "release"}
    /\ max_value = 0
    /\ secret_number = 0
    /\ can_play_again = FALSE
    /\ out = <<Blank, Welcome, QuitHint>>
    /\ input = <<>>
    /\ read_at = "none"
    /\ panic = NoPanic
    /\ goodbyes = 0
    /\ result = NoResult
    /\ known_low = 0
    /\ known_high = 0
    /\ tries = 0

-----------------------------------------------------------------------------
(* main *)

\* BelowMin as it would be with the bound of a signed check.
BelowMin_Negative(num) == num < 0

\* main.rs line 56: the maximum is rejected.
BelowMin(num) == num < 1

\* Declines as it would be without the trim of the line.
Declines_NoTrim(play_again) == play_again # <<"y">>

\* Declines as it would be if only "n" ended the session.
Declines_OnlyN(play_again) == Trim(play_again) = <<"n">>

\* main.rs line 76: the answer to the play-again prompt ends the session.
Declines(play_again) == Trim(play_again) # <<"y">>

\* ExitsAfterRound as it would be with the negation dropped.
ExitsAfterRound_Inverted(won) == won

\* main.rs line 63: main returns after the round.
ExitsAfterRound(won) == ~won

\* One iteration of main's loop up to the call of guess: prompt, read_line,
\* input_parser, the check of the value.
main_loop ==
    /\ pc = "max"
    /\ \E line \in Lines :
        LET r == input_parser(line)
            shown == <<Blank, MaxPrompt>> \o r.out
        IN  /\ input' = line
            /\ read_at' = "max"
            /\ result' = r
            /\ IF ~r.ok /\ r.typed_quit
               THEN /\ out' = shown \o <<Goodbye>>
                    /\ pc' = "done"
                    /\ UNCHANGED max_value
               ELSE IF ~r.ok
               THEN /\ out' = shown \o <<Blank>>
                    /\ pc' = "max"
                    /\ UNCHANGED max_value
               ELSE IF BelowMin(r.num)
               THEN /\ out' = shown \o <<MustBePositive>>
                    /\ pc' = "max"
                    /\ UNCHANGED max_value
               ELSE /\ out' = shown
                    /\ max_value' = r.num
                    /\ pc' = "call_guess"
    /\ goodbyes' = goodbyes + Count(out', Goodbye)
    /\ UNCHANGED <<build, secret_number, can_play_again, panic>>

\* main after guess returned: leave when the round was quit, else go on to
\* the play-again prompt.
main_after_guess ==
    /\ pc = "ret"
    /\ pc' = IF ExitsAfterRound(can_play_again) THEN "done" ELSE "again"
    /\ out' = <<>>
    /\ goodbyes' = goodbyes + Count(out', Goodbye)
    /\ UNCHANGED <<build, max_value, secret_number, can_play_again, input,
                   read_at, panic, result>>

\* The play-again prompt, its read_line and the decision; "y" ends the loop
\* iteration, whose max_value and can_play_again go out of scope.
main_play_again ==
    /\ pc = "again"
    /\ \E line \in Lines :
        /\ input' = line
        /\ read_at' = "again"
        /\ IF Declines(line)
           THEN /\ out' = <<Blank, AgainPrompt, LeavingWinner>>
                /\ pc' = "done"
                /\ UNCHANGED <<max_value, can_play_again>>
           ELSE /\ out' = <<Blank, AgainPrompt>>
                /\ pc' = "max"
                /\ max_value' = 0
                /\ can_play_again' = FALSE
    /\ goodbyes' = goodbyes + Count(out', Goodbye)
    /\ result' = NoResult
    /\ UNCHANGED <<build, secret_number, panic>>

-----------------------------------------------------------------------------
(* guess *)

\* max_value + 1 in u32: the wrapped sum, and whether the build panics on it.
AddOverflows(a, b) == a + b > U32_MAX

WrappingAdd(a, b) == (a + b) % (U32_MAX + 1)

\* gen_range as it would be with an inclusive upper end.
gen_range_inclusive(low, high) == low..high

\* Rng::gen_range(low, high): a value of [low, high); requires low < high.
gen_range(low, high) == low..(high - 1)

\* OutOfRange as it would be without the check against 1.
OutOfRange_NoLowerCheck(num, max) == num > max

\* main.rs lines 128-136: the guess is outside [1, max_value].
OutOfRange(num, max) == num > max \/ num < 1

\* Cmp as it would be with the operands exchanged.
Cmp_Swapped(a, b) == IF b < a THEN "Less" ELSE IF b > a THEN "Greater" ELSE "Equal"

\* Cmp as it would be if equality were folded into Less.
Cmp_LessOrEqual(a, b) == IF a <= b THEN "Less" ELSE "Greater"

\* main.rs line 138: guess.cmp(&secret_number)
Cmp(a, b) == IF a < b THEN "Less" ELSE IF a > b THEN "Greater" ELSE "Equal"

\* Entry of guess: the introduction and the draw of the secret number.
guess_start ==
    /\ pc = "call_guess"
    /\ out' = <<Blank, GuessIntro(max_value)>>
    /\ IF AddOverflows(max_value, 1) /\ build = "debug"
       THEN /\ pc' = "panicked"
            /\ panic' = OverflowPanic
            /\ UNCHANGED secret_number
       ELSE LET high == WrappingAdd(max_value, 1) IN
            IF ~(1 < high)
            THEN /\ pc' = "panicked"
                 /\ panic' = RangePanic
                 /\ UNCHANGED secret_number
            ELSE /\ \E s \in gen_range(1, high) : secret_number' = s
                 /\ pc' = "guess"
                 /\ UNCHANGED panic
    /\ goodbyes' = goodbyes + Count(out', Goodbye)
    /\ UNCHANGED <<build, max_value, can_play_again, input, read_at, result>>

\* One iteration of guess's loop: prompt, read_line, input_parser, the range
\* checks and the comparison.  On return the secret number is discarded.
guess_loop ==
    /\ pc = "guess"
    /\ \E line \in Lines :
        LET r == input_parser(line)
            shown == <<Blank, GuessPrompt>> \o r.out
        IN  /\ input' = line
            /\ read_at' = "guess"
            /\ result' = r
            /\ IF ~r.ok /\ r.typed_quit
               THEN /\ out' = shown \o <<Goodbye>>
                    /\ can_play_again' = FALSE
                    /\ secret_number' = 0
                    /\ pc' = "ret"
               ELSE IF ~r.ok
               THEN /\ out' = shown
                    /\ pc' = "guess"
                    /\ UNCHANGED <<can_play_again, secret_number>>
               ELSE IF OutOfRange(r.num, max_value)
               THEN /\ out' = shown \o <<InvalidNumber(Format(r.num))>>
                    /\ pc' = "guess"
                    /\ UNCHANGED <<can_play_again, secret_number>>
               ELSE IF Cmp(r.num, secret_number) = "Less"
               THEN /\ out' = shown \o <<TooSmall>>
                    /\ pc' = "guess"
                    /\ UNCHANGED <<can_play_again, secret_number>>
               ELSE IF Cmp(r.num, secret_number) = "Greater"
               THEN /\ out' = shown \o <<TooBig>>
                    /\ pc' = "guess"
                    /\ UNCHANGED <<can_play_again, secret_number>>
               ELSE /\ out' = shown \o <<YouWin>>
                    /\ can_play_again' = TRUE
                    /\ secret_number' = 0
                    /\ pc' = "ret"
    /\ goodbyes' = goodbyes + Count(out', Goodbye)
    /\ UNCHANGED <<build, max_value, panic>>

-----------------------------------------------------------------------------
(* read_line(...).expect("Failed to read line.") *)

PromptOf(at) ==
    IF at = "max" THEN MaxPrompt
    ELSE IF at = "guess" THEN GuessPrompt
    ELSE AgainPrompt

\* expect as it would be if the failed read were retried at the same prompt.
expect_Retry(at) == [pc |-> at, panic |-> NoPanic]

\* .expect("Failed to read line.") on an Err: the process panics.
expect(at) == [pc |-> "panicked", panic |-> ReadPanic]

\* The read of a line fails at one of the three prompts.
read_fails ==
    /\ pc \in {"max", "guess", "again"}
    /\ out' = <<Blank, PromptOf(pc)>>
    /\ input' = ReadError
    /\ read_at' = pc
    /\ pc' = expect(pc).pc
    /\ panic' = expect(pc).panic
    /\ goodbyes' = goodbyes + Count(out', Goodbye)
    /\ result' = NoResult
    /\ UNCHANGED <<build, max_value, secret_number, can_play_again>>

-----------------------------------------------------------------------------

\* The program with any input: nothing is remembered of the feedback.
Next ==
    \/ main_loop /\ UNCHANGED player_vars
    \/ guess_start /\ UNCHANGED player_vars
    \/ guess_loop /\ UNCHANGED player_vars
    \/ main_after_guess /\ UNCHANGED player_vars
    \/ main_play_again /\ UNCHANGED player_vars
    \/ read_fails /\ UNCHANGED player_vars

Spec == Init /\ [][Next]_vars

-----------------------------------------------------------------------------
(* The program played by a player who follows the feedback *)

\* The guess agrees with the feedback of the round so far: above every guess
\* answered "Too small.", below every guess answered "Too big.", and within
\* the range announced at the start of the round.
Consistent(num) == known_low < num /\ num < known_high

\* The round starts: the player has read "Guess a number from 1 to {max}."
\* and no feedback yet.
player_round_start ==
    /\ guess_start
    /\ known_low' = 0
    /\ known_high' = max_value + 1
    /\ tries' = 0

\* The player enters a guess that agrees with the feedback so far and reads
\* the answer.
player_guess ==
    /\ guess_loop
    /\ ParseU32(Trim(input')).ok
    /\ Consistent(ParseU32(Trim(input')).num)
    /\ tries' = tries + 1
    /\ known_low' = IF Count(out', TooSmall) = 1
                    THEN ParseU32(Trim(input')).num
                    ELSE known_low
    /\ known_high' = IF Count(out', TooBig) = 1
                     THEN ParseU32(Trim(input')).num
                     ELSE known_high

\* The round is over: its feedback is of no further use.
player_round_end ==
    /\ main_after_guess
    /\ known_low' = 0
    /\ known_high' = 0
    /\ tries' = 0

\* Reads succeed, and at the guess prompt only player_guess is played.
PlayerNext ==
    \/ main_loop /\ UNCHANGED player_vars
    \/ player_round_start
    \/ player_guess
    \/ player_round_end
    \/ main_play_again /\ UNCHANGED player_vars

PlayerSpec == Init /\ [][PlayerNext]_vars

\* The round waits in read_line for the player, who goes on guessing until
\* the round ends.
PlayerFairSpec == PlayerSpec /\ WF_vars(player_guess)

-----------------------------------------------------------------------------
(* Properties *)

\* What input_parser's caller sees of the last line read, recomputed from the
\* text.
LastParse == ParseU32(Trim(input))

LastIsQuit == Trim(input) = quit

\* The last step read a line (the read did not fail) at prompt at.
LineReadAt(at) == read_at = at /\ panic # ReadPanic

\* C1: for every maximum max >= 1 handed to a round, up to u32::MAX, the round
\* draws its secret number without failing and the secret lies in [1, max].
C1_SecretDrawnInRange ==
    [][(pc = "call_guess" /\ max_value >= 1)
          => (pc' = "guess" /\ secret_number' \in 1..max_value)]_vars

\* C2: a guess that parses to an integer above max or below 1 is never
\* compared with the secret: no "Too small.", "Too big." or "You win!", exactly
\* one "Invalid number: {value}", and the round prompts for another guess.
C2_OutOfRangeGuessRejected ==
    (/\ LineReadAt("guess")
     /\ LastParse.ok
     /\ (LastParse.num > max_value \/ LastParse.num < 1))
    => /\ pc = "guess"
       /\ Count(out, TooSmall) = 0
       /\ Count(out, TooBig) = 0
       /\ Count(out, YouWin) = 0
       /\ CountInvalid(out) = 1
       /\ out[Len(out)] = InvalidNumber(Format(LastParse.num))
       /\ secret_number \in 1..max_value

C2_Witness ==
    /\ LineReadAt("guess")
    /\ LastParse.ok
    /\ LastParse.num > max_value
    /\ pc = "guess"
    /\ CountInvalid(out) = 1

\* C3: for every in-range guess g and secret s the round prints exactly one
\* feedback message: "Too small." iff g < s, "Too big." iff g > s, "You win!"
\* iff g = s.
C3_FeedbackMatchesComparison ==
    [][(/\ pc = "guess"
        /\ read_at' = "guess"
        /\ panic' # ReadPanic
        /\ ParseU32(Trim(input')).ok
        /\ ParseU32(Trim(input')).num \in 1..max_value)
       => LET g == ParseU32(Trim(input')).num
              s == secret_number
          IN  /\ Count(out', TooSmall) + Count(out', TooBig)
                    + Count(out', YouWin) = 1
              /\ CountInvalid(out') = 0
              /\ Count(out', TooSmall) = 1 <=> g < s
              /\ Count(out', TooBig) = 1 <=> g > s
              /\ Count(out', YouWin) = 1 <=> g = s]_vars

C3_Witness ==
    /\ LineReadAt("guess")
    /\ pc = "guess"
    /\ LastParse.ok
    /\ LastParse.num \in 1..max_value
    /\ LastParse.num > secret_number
    /\ Count(out, TooBig) = 1

\* C4: a round returns true exactly at the first guess equal to the secret
\* and reads no further line after it; it returns true only after a guess equal
\* to the secret and false only after a quit line.
C4_RoundOutcome ==
    [][/\ (/\ pc = "guess"
           /\ read_at' = "guess"
           /\ panic' # ReadPanic
           /\ ParseU32(Trim(input')).ok
           /\ ParseU32(Trim(input')).num = secret_number)
          => (pc' = "ret" /\ can_play_again' /\ Count(out', YouWin) = 1)
       /\ (pc = "guess" /\ pc' = "ret" /\ can_play_again')
          => (/\ ParseU32(Trim(input')).ok
              /\ ParseU32(Trim(input')).num = secret_number)
       /\ (pc = "guess" /\ pc' = "ret" /\ ~can_play_again')
          => Trim(input') = quit
       /\ (pc = "guess" /\ pc' = "guess")
          => ~(/\ ParseU32(Trim(input')).ok
               /\ ParseU32(Trim(input')).num = secret_number)
       /\ pc = "ret"
          => (/\ input' = input
              /\ read_at' = read_at
              /\ pc' \in {"again", "done"})]_vars

\* max = 10, secret = 10: the guess 10 has ended the round with true.
C4_Witness ==
    /\ pc = "ret"
    /\ can_play_again
    /\ max_value = 10
    /\ read_at = "guess"
    /\ input = Line(Format(10))
    /\ out = <<Blank, GuessPrompt, YouWin>>

\* C5: "quit" at a guess prompt makes the round return false at once,
\* "Goodbye!" is printed exactly once, and the session ends without the
\* play-again prompt or "At least you're leaving a winner.".
C5_QuitDuringRound ==
    (LineReadAt("guess") /\ LastIsQuit)
    => /\ pc \in {"ret", "done"}
       /\ ~can_play_again
       /\ goodbyes = 1
       /\ pc = "ret" => out = <<Blank, GuessPrompt, Goodbye>>
       /\ pc = "done" => out = <<>>
       /\ Count(out, AgainPrompt) = 0
       /\ Count(out, LeavingWinner) = 0

C5_Witness ==
    /\ LineReadAt("guess")
    /\ LastIsQuit
    /\ pc = "done"
    /\ goodbyes = 1

\* C6: "quit" at the maximum-value prompt prints "Goodbye!" exactly once and
\* ends the process; no round starts, no secret is drawn, no guess prompt is
\* shown.
C6_QuitAtMaxPrompt ==
    (LineReadAt("max") /\ LastIsQuit)
    => /\ pc = "done"
       /\ goodbyes = 1
       /\ out = <<Blank, MaxPrompt, Goodbye>>
       /\ max_value = 0
       /\ secret_number = 0

C6_Witness ==
    /\ LineReadAt("max")
    /\ LastIsQuit
    /\ pc = "done"
    /\ Count(out, Goodbye) = 1

\* C7: a round starts only after a maximum line that parses to an integer
\* >= 1: a maximum of 0 prints "Value must be greater than zero." and prompts
\* for the maximum again, an unparseable maximum prompts again, neither starts
\* a round; whenever a round is running, max >= 1.
C7_RoundNeedsPositiveMax ==
    /\ pc \in {"call_guess", "guess"} => max_value >= 1
    /\ (LineReadAt("max") /\ LastParse.ok /\ LastParse.num = 0)
       => /\ pc = "max"
          /\ out = <<Blank, MaxPrompt, MustBePositive>>
          /\ secret_number = 0
    /\ (LineReadAt("max") /\ ~LastParse.ok /\ ~LastIsQuit)
       => /\ pc = "max"
          /\ out = <<Blank, MaxPrompt, InvalidNumber(Trim(input)), Blank>>
          /\ secret_number = 0
    /\ (LineReadAt("max") /\ pc \in {"call_guess", "guess"})
       => (LastParse.ok /\ LastParse.num = max_value)

C7_Witness ==
    /\ LineReadAt("max")
    /\ input = Line(Format(0))
    /\ pc = "max"
    /\ Count(out, MustBePositive) = 1

\* C8: after every won round the play-again prompt is shown and one line is
\* read: trimmed text exactly "y" restarts the session at the maximum prompt
\* (no maximum, no secret kept); any other line prints "At least you're
\* leaving a winner." and the process ends.
C8_PlayAgain ==
    /\ [](LineReadAt("again")
          => IF Trim(input) = <<"y">>
             THEN /\ pc = "max"
                  /\ out = <<Blank, AgainPrompt>>
                  /\ max_value = 0
                  /\ secret_number = 0
             ELSE /\ pc = "done"
                  /\ out = <<Blank, AgainPrompt, LeavingWinner>>)
    /\ [][/\ (pc = "ret" /\ can_play_again) => pc' = "again"
          /\ pc = "again" => (read_at' = "again" /\ Count(out', AgainPrompt) = 1)
          /\ pc' = "again" => (pc = "ret" /\ can_play_again)]_vars

C8_Witness ==
    /\ LineReadAt("again")
    /\ input = Line(<<"y">>)
    /\ pc = "max"

\* C9: the session ends only when the user quits or declines to replay: unless
\* a read fails, the process has ended only after a "quit" line at the maximum
\* or guess prompt or an answer other than "y" at the play-again prompt.
C9_EndsOnlyOnQuitOrDecline ==
    pc \in {"done", "panicked"}
    => \/ panic = ReadPanic
       \/ (read_at \in {"max", "guess"} /\ LastIsQuit)
       \/ (read_at = "again" /\ Trim(input) # <<"y">>)

\* C10: at every prompt a line whose trimmed text is "quit" ends the process:
\* no round is started or continued and no further prompt is shown.
C10_QuitEndsProcess ==
    /\ []((read_at # "none" /\ panic # ReadPanic /\ LastIsQuit)
          => /\ pc \in {"ret", "done"}
             /\ pc = "ret" => ~can_play_again
             /\ Count(out, MaxPrompt) + Count(out, GuessPrompt)
                   + Count(out, AgainPrompt) <= 1)
    /\ [][/\ (pc = "ret" /\ ~can_play_again) => (pc' = "done" /\ out' = <<>>)
          /\ pc # "done"]_vars

C10_Witness ==
    /\ LineReadAt("again")
    /\ LastIsQuit
    /\ pc = "done"

\* The last read delivered a line and input_parser was called on it: result
\* is what that call returned.
ParserCalled == read_at \in {"max", "guess"} /\ input # ReadError

\* C11: input_parser yields the quit signal for exactly the lines whose
\* trimmed text is "quit", case-sensitively (" quit \n" quits; "QUIT", "Quit",
\* "quit now" do not), and prints no "Invalid number" when it does.
C11_QuitSignal ==
    ParserCalled
    => /\ result.typed_quit <=> Trim(input) = quit
       /\ input \in {Line(quit), <<" ", "q", "u", "i", "t", " ", "\n">>}
          => result.typed_quit
       /\ input \in {Line(<<"Q", "U", "I", "T">>), Line(<<"Q", "u", "i", "t">>),
                     Line(<<"q", "u", "i", "t", " ", "n", "o", "w">>)}
          => ~result.typed_quit
       /\ result.typed_quit
          => (~result.ok /\ result.out = <<>> /\ CountInvalid(out) = 0)

C11_Witness ==
    /\ ParserCalled
    /\ input = <<" ", "q", "u", "i", "t", " ", "\n">>
    /\ result.typed_quit
    /\ CountInvalid(out) = 0

\* The text is a decimal numeral: one or more digits.
IsNumeral(s) == s # <<>> /\ \A i \in 1..Len(s) : IsDigit(s[i])

\* The non-negative integer a decimal numeral denotes, whatever its size.
RECURSIVE NumeralValue(_)
NumeralValue(s) ==
    IF s = <<>> THEN 0
    ELSE 10 * NumeralValue(SubSeq(s, 1, Len(s) - 1)) + DigitVal(s[Len(s)])

\* C12 as stated: for every trimmed input that is a non-negative integer,
\* input_parser yields that integer and prints no diagnostic.
C12_EveryNumeralParsed ==
    (ParserCalled /\ IsNumeral(Trim(input)))
    => /\ result.ok
       /\ result.num = NumeralValue(Trim(input))
       /\ result.out = <<>>

\* C12 as amended: for every trimmed input that is a non-negative integer of
\* at most u32::MAX, input_parser yields that integer and prints no diagnostic;
\* an integer above u32::MAX is reported as invalid input.
C12_NumeralInRangeParsed ==
    (ParserCalled /\ IsNumeral(Trim(input)))
    => IF NumeralValue(Trim(input)) <= U32_MAX
       THEN /\ result.ok
            /\ result.num = NumeralValue(Trim(input))
            /\ result.out = <<>>
       ELSE /\ ~result.ok
            /\ ~result.typed_quit
            /\ result.out = <<InvalidNumber(Trim(input))>>

C12_Witness ==
    /\ ParserCalled
    /\ input = Line(Format(U32_MAX))
    /\ result.ok
    /\ result.num = U32_MAX
    /\ result.out = <<>>

\* C13: input_parser has exactly three outcomes; a line that is neither a
\* parseable integer nor "quit" gives exactly one "Invalid number: {trimmed
\* text}" and the invalid signal; no input text makes the call fail.
C13_ParserTotal ==
    /\ [](ParserCalled
          => /\ \/ (result.ok /\ ~result.typed_quit /\ result.out = <<>>)
                \/ (~result.ok /\ result.typed_quit /\ result.out = <<>>)
                \/ (/\ ~result.ok
                    /\ ~result.typed_quit
                    /\ result.out = <<InvalidNumber(Trim(input))>>)
             /\ (~LastParse.ok /\ ~LastIsQuit)
                => /\ ~result.ok
                   /\ ~result.typed_quit
                   /\ result.out = <<InvalidNumber(Trim(input))>>
                   /\ CountInvalid(out) = 1
                   /\ pc = read_at)
    /\ [][(pc \in {"max", "guess"} /\ input' # ReadError)
             => (pc' # "panicked" /\ panic' = NoPanic)]_vars

C13_Witness ==
    /\ ParserCalled
    /\ input = Line(<<"a", "b", "c">>)
    /\ pc = "max"
    /\ result.out = <<InvalidNumber(<<"a", "b", "c">>)>>
    /\ CountInvalid(out) = 1

\* C14: an unparseable guess line is recoverable: exactly one "Invalid
\* number: {text}" (the round adds none), the same round prompts again; the
\* secret number and max keep their value from the start of a round to its
\* end, whatever lines are entered.
C14_InvalidGuessRecoverable ==
    /\ []((/\ LineReadAt("guess")
           /\ input # ReadError
           /\ ~LastParse.ok
           /\ ~LastIsQuit)
          => /\ pc = "guess"
             /\ out = <<Blank, GuessPrompt, InvalidNumber(Trim(input))>>
             /\ secret_number \in 1..max_value)
    /\ [][/\ pc = "guess" => max_value' = max_value
          /\ (pc = "guess" /\ pc' # "ret") => secret_number' = secret_number
          /\ (pc = "call_guess" /\ pc' = "guess") => max_value' = max_value]_vars

C14_Witness ==
    /\ LineReadAt("guess")
    /\ input = Line(<<"a", "b", "c">>)
    /\ pc = "guess"
    /\ out = <<Blank, GuessPrompt, InvalidNumber(<<"a", "b", "c">>)>>
    /\ secret_number \in 1..max_value

\* C15: a failed read of a line at any of the three prompts is fatal: the
\* process ends with the diagnostic, the read is not retried, no further
\* prompt or round follows.
C15_ReadFailureFatal ==
    /\ [](input = ReadError
          => /\ pc = "panicked"
             /\ panic = ReadPanic
             /\ out = <<Blank, PromptOf(read_at)>>)
    /\ [][pc # "panicked"]_vars

C15_Witness ==
    /\ input = ReadError
    /\ read_at = "guess"
    /\ pc = "panicked"
    /\ panic = ReadPanic

\* C16: with max = 1 the secret is 1: the round never prints "Too small." or
\* "Too big.", and its first in-range guess prints "You win!" and returns
\* true.
C16_MaxOne ==
    /\ []((max_value = 1 /\ pc = "guess") => secret_number = 1)
    /\ [](max_value = 1 => (Count(out, TooSmall) = 0 /\ Count(out, TooBig) = 0))
    /\ [][(/\ pc = "guess"
           /\ max_value = 1
           /\ input' # ReadError
           /\ ParseU32(Trim(input')).ok
           /\ ParseU32(Trim(input')).num \in 1..max_value)
          => /\ pc' = "ret"
             /\ can_play_again'
             /\ out' = <<Blank, GuessPrompt, YouWin>>]_vars

C16_Witness ==
    /\ max_value = 1
    /\ read_at = "guess"
    /\ LastParse.ok
    /\ LastParse.num = 1
    /\ pc = "ret"
    /\ can_play_again
    /\ Count(out, YouWin) = 1

\* C18: an empty line (also what a read at end of input delivers, without a
\* read error) is recoverable invalid input at the maximum and guess prompts:
\* "Invalid number: " is printed and the same prompt repeats, the program
\* state unchanged, so an ended input stream repeats that prompt forever; at
\* the play-again prompt an empty line ends the process with the closing
\* message.
C18_EmptyLine ==
    /\ []((read_at # "none" /\ input # ReadError /\ Trim(input) = <<>>)
          => /\ read_at = "max"
                => /\ pc = "max"
                   /\ out = <<Blank, MaxPrompt, InvalidNumber(<<>>), Blank>>
             /\ read_at = "guess"
                => /\ pc = "guess"
                   /\ out = <<Blank, GuessPrompt, InvalidNumber(<<>>)>>
             /\ read_at = "again"
                => /\ pc = "done"
                   /\ out = <<Blank, AgainPrompt, LeavingWinner>>)
    /\ [][(/\ pc \in {"max", "guess"}
           /\ input' # ReadError
           /\ Trim(input') = <<>>)
          => /\ pc' = pc
             /\ max_value' = max_value
             /\ secret_number' = secret_number
             /\ can_play_again' = can_play_again
             /\ panic' = NoPanic]_vars

\* End of input at the guess prompt: the round is still at the guess prompt.
C18_Witness ==
    /\ read_at = "guess"
    /\ input = <<>>
    /\ pc = "guess"
    /\ out = <<Blank, GuessPrompt, InvalidNumber(<<>>)>>

\* C17: the feedback of a round is consistent with one fixed secret: for a
\* player who only enters in-range guesses that agree with all feedback of the
\* round so far, the secret always lies strictly between the bounds the
\* feedback gave (so a next such guess exists), every such guess either wins
\* or leaves fewer candidates, fewer than max of them can fail, and the round
\* ends only with "You win!", after at most max such guesses.
C17_ConsistentPlayerWins ==
    /\ [](pc = "guess"
          => /\ known_low < secret_number
             /\ secret_number < known_high
             /\ tries + (known_high - known_low - 1) <= max_value
             /\ tries < max_value)
    /\ [](pc = "ret"
          => /\ can_play_again
             /\ Count(out, YouWin) = 1
             /\ tries >= 1
             /\ tries <= max_value)
    /\ [][pc = "guess"
          => /\ pc' \in {"guess", "ret"}
             /\ tries' = tries + 1
             /\ pc' = "guess"
                => known_high' - known_low' < known_high - known_low]_vars

\* The same under PlayerFairSpec, as a liveness property: a round that is
\* waiting for a guess is eventually won.
C17_EventuallyWon == (pc = "guess") ~> (pc = "ret" /\ can_play_again)

\* The longest round with max = 3: the guesses 1, 2, 3 against the secret 3.
C17_Witness ==
    /\ pc = "ret"
    /\ can_play_again
    /\ max_value = 3
    /\ tries = 3
    /\ known_low = 2
    /\ Count(out, YouWin) = 1

=============================================================================
